---- MODULE Spec2Model ----
(***************************************************************************)
(* Model of the Google Sheets glue service: the Operation Library of       *)
(* drive.py (nine operations over the shared client pair `services`) and   *)
(* the natural-language endpoint of server.py.                             *)
(*                                                                         *)
(* Text values (cell values, header names, search terms) are sequences of  *)
(* one-character strings, so that lower() and the substring test of        *)
(* buscar_dados are computed and not assumed.  Tab names, e-mail addresses *)
(* and titles are only compared for equality and stay TLA+ strings.        *)
(* Spreadsheet ids are the naturals the remote store hands out; id 0 is    *)
(* an id that no spreadsheet has.                                          *)
(***************************************************************************)
EXTENDS Integers, Sequences, FiniteSets, TLC

VARIABLES
    creds,      \* what the environment holds as GOOGLE_CREDENTIALS
    api_key,    \* whether ANTHROPIC_API_KEY is set (server.py `client`)
    services,   \* drive.py `services`: the client pair, or None
    store,      \* the remote store: the spreadsheets of the account
    last,       \* the request served last: operation, arguments, outcome
    inp         \* the request a client is about to send (scenario runs)

vars == <<creds, api_key, services, store, last, inp>>

\* ---------------------------------------------------------------- bounds
MaxRows == 3      \* rows of a tab in the read and write scenarios
MaxCols == 2      \* cells of a row
MaxDados == 2     \* rows of one write request in the write scenarios
MaxPlanilhas == 2  \* spreadsheets of the store in the creation scenarios
MaxLinhas == 1    \* rows a tab comes to hold under arbitrary request sequences

\* ------------------------------------------------------- Python helpers
\* Python's None: a value different from every modelled text value.
None == <<"None">>

\* The empty str "".
EmptyStr == <<>>

\* Truth value of an Optional[str]: None and "" are falsy.
Truthy(s) == s # None /\ s # EmptyStr

\* dict.get(k, default)
Get(d, k, default) == IF k \in DOMAIN d THEN d[k] ELSE default

\* str.lower() on the modelled alphabet.
LowerChar(c) == IF c = "A" THEN "a" ELSE IF c = "B" THEN "b" ELSE c

Lower(s) == [i \in 1..Len(s) |-> LowerChar(s[i])]

\* Python's `t in s` for two strs: t is a contiguous substring of s.
StrIn(t, s) ==
    \E k \in 0..(Len(s) - Len(t)) : \A i \in 1..Len(t) : s[k + i] = t[i]

\* [''] * n  (n <= 0 gives the empty list)
Blanks(n) == [i \in 1..(IF n > 0 THEN n ELSE 0) |-> EmptyStr]

Max(a, b) == IF a >= b THEN a ELSE b

\* ---------------------------------------------------- text of the inputs
Ca == <<"a">>

Cab == <<"A", "b">>

\* all grids of at most m rows of at most n cells drawn from cells
Grades(cells, m, n) ==
    UNION {[1..k -> UNION {[1..j -> cells] : j \in 0..n}] : k \in 0..m}

\* the grids of k rows of j cells "a", k <= m and j <= n
Cheias(m, n) == {[i \in 1..k |-> [c \in 1..j |-> Ca]] : k \in 0..m, j \in 1..n}

\* ------------------------------------------------ exceptions and outcomes
\* googleapiclient.errors.HttpError and the other exception classes that
\* reach the handlers; str(e) is the field text.
HttpError(text) == [type |-> "HttpError", text |-> text]

PyException(type, text) == [type |-> type, text |-> text]

\* `except Exception` catches every class modelled here: HttpError,
\* TypeError, JSONDecodeError and fastapi.HTTPException all derive from it.
IsException(e) == e.type \in {"HttpError", "Exception", "TypeError",
                              "JSONDecodeError", "HTTPException"}

\* Outcome of one remote call .execute(): a response and the store after it,
\* or an exception that leaves the store as it was.
Ok(val, st) == [ok |-> TRUE, val |-> val, st |-> st]

Fail(e, st) == [ok |-> FALSE, exc |-> e, st |-> st]

\* The n-th remote call of an invocation fails in transit when the injected
\* fault names it; otherwise the remote store answers.
NoFault == [at |-> 0, type |-> "Exception"]

Faults(n) == {NoFault} \cup
             {[at |-> k, type |-> t] : k \in 1..n, t \in {"HttpError", "Exception"}}

Execute(n, flt, st, answer) ==
    IF flt.at = n THEN Fail(PyException(flt.type, "transport"), st) ELSE answer

\* ----------------------------------------------------- the remote store
\* store is the sequence of spreadsheets, spreadsheet id = position.
\* A tab keeps its cell values as rows of text; an empty cell and a cell
\* holding "" are the same cell.
Exists(st, id) == id \in 1..Len(st)

TabIndex(sheets, title) ==
    IF \E i \in 1..Len(sheets) : sheets[i].title = title
    THEN CHOOSE i \in 1..Len(sheets) : sheets[i].title = title
    ELSE 0

\* value of cell (r, c) of a grid, "" where the grid has no cell
CellAt(grid, r, c) ==
    IF r \in 1..Len(grid) /\ c \in 1..Len(grid[r]) THEN grid[r][c] ELSE EmptyStr

\* The values API omits trailing empty cells of a row and trailing empty
\* rows of a range (the reason ler_dados pads short rows and reads
\* 'values' with a default).
RECURSIVE TrimRow(_)
TrimRow(row) ==
    IF row = <<>> THEN <<>>
    ELSE IF row[Len(row)] = EmptyStr THEN TrimRow(SubSeq(row, 1, Len(row) - 1))
    ELSE row

RECURSIVE TrimRows(_)
TrimRows(grid) ==
    IF grid = <<>> THEN <<>>
    ELSE IF grid[Len(grid)] = <<>> THEN TrimRows(SubSeq(grid, 1, Len(grid) - 1))
    ELSE grid

TrimGrid(grid) == TrimRows([r \in 1..Len(grid) |-> TrimRow(grid[r])])

\* cells r1..r2 x c1..c2 of a grid
SubGrid(grid, r1, c1, r2, c2) ==
    [r \in 1..(r2 - r1 + 1) |->
        [c \in 1..(c2 - c1 + 1) |-> CellAt(grid, r1 + r - 1, c1 + c - 1)]]

\* writing rows at A1 over a grid: a written cell replaces the old cell,
\* every other cell stays
Overlay(grid, rows) ==
    [r \in 1..Max(Len(grid), Len(rows)) |->
        LET n == IF r <= Len(rows) THEN Len(rows[r]) ELSE 0
            m == IF r <= Len(grid) THEN Len(grid[r]) ELSE 0
        IN [c \in 1..Max(n, m) |-> IF c <= n THEN rows[r][c] ELSE grid[r][c]]]

SetValues(st, id, i, grid) ==
    [st EXCEPT ![id].sheets[i].values = TrimGrid(grid)]

\* a range names a tab, or a tab and a rectangle <<r1, c1, r2, c2>>
RangeTab(range) == range[1]

RangeValues(grid, range) ==
    IF Len(range) = 1 THEN TrimGrid(grid)
    ELSE LET b == range[2] IN TrimGrid(SubGrid(grid, b[1], b[2], b[3], b[4]))

\* spreadsheets().create(body): a new spreadsheet with the one tab of body
SpreadsheetsCreate(st, title) ==
    Ok([spreadsheetId |-> Len(st) + 1],
       Append(st, [title |-> title,
                   sheets |-> <<[title |-> "Principal", sheetId |-> 0,
                                 values |-> <<>>]>>,
                   permissions |-> {}]))

\* permissions().create(fileId, body)
PermissionsCreate(st, fileId, email) ==
    IF ~Exists(st, fileId) THEN Fail(HttpError("not found"), st)
    ELSE Ok([id |-> email],
            [st EXCEPT ![fileId].permissions = @ \cup {email}])

\* files().list(q, pageSize): the first pageSize spreadsheets
FilesList(st, pageSize) ==
    LET n == IF Len(st) < pageSize THEN Len(st) ELSE pageSize
    IN Ok([files |-> [i \in 1..n |-> [id |-> i, name |-> st[i].title]]], st)

\* spreadsheets().get(spreadsheetId)
SpreadsheetsGet(st, id) ==
    IF ~Exists(st, id) THEN Fail(HttpError("not found"), st)
    ELSE Ok([sheets |-> [i \in 1..Len(st[id].sheets) |->
                [properties |-> [sheetId |-> st[id].sheets[i].sheetId,
                                 title |-> st[id].sheets[i].title,
                                 index |-> i - 1]]]], st)

\* spreadsheets().batchUpdate(addSheet): the store refuses a second tab of
\* the same title with an error whose text says "already exists"
BatchUpdateAddSheet(st, id, title) ==
    IF ~Exists(st, id) THEN Fail(HttpError("not found"), st)
    ELSE IF TabIndex(st[id].sheets, title) # 0
    THEN Fail(HttpError("already exists"), st)
    ELSE LET sid == Len(st[id].sheets)
         IN Ok([replies |-> <<[addSheet |-> [properties |-> [sheetId |-> sid]]]>>],
               [st EXCEPT ![id].sheets =
                    Append(@, [title |-> title, sheetId |-> sid, values |-> <<>>])])

\* values().get(range): no 'values' key when the range holds nothing
ValuesGet(st, id, range) ==
    IF ~Exists(st, id) THEN Fail(HttpError("not found"), st)
    ELSE LET i == TabIndex(st[id].sheets, RangeTab(range))
         IN IF i = 0 THEN Fail(HttpError("unable to parse range"), st)
            ELSE LET v == RangeValues(st[id].sheets[i].values, range)
                 IN IF v = <<>> THEN Ok([range |-> range], st)
                    ELSE Ok([range |-> range, values |-> v], st)

\* values().clear(range = tab)
ValuesClear(st, id, tab) ==
    IF ~Exists(st, id) THEN Fail(HttpError("not found"), st)
    ELSE LET i == TabIndex(st[id].sheets, tab)
         IN IF i = 0 THEN Fail(HttpError("unable to parse range"), st)
            ELSE Ok([clearedRange |-> tab], SetValues(st, id, i, <<>>))

\* number of cells of a list of rows
RECURSIVE CellCount(_)
CellCount(rows) ==
    IF rows = <<>> THEN 0 ELSE Len(rows[1]) + CellCount(Tail(rows))

\* values().update(range = tab, RAW, body): the rows are written from A1
ValuesUpdate(st, id, tab, rows) ==
    IF ~Exists(st, id) THEN Fail(HttpError("not found"), st)
    ELSE LET i == TabIndex(st[id].sheets, tab)
         IN IF i = 0 THEN Fail(HttpError("unable to parse range"), st)
            ELSE Ok([updatedCells |-> CellCount(rows)],
                    SetValues(st, id, i, Overlay(st[id].sheets[i].values, rows)))

\* values().append(range = tab, RAW, INSERT_ROWS, body): the rows go after
\* the last populated row
ValuesAppend(st, id, tab, rows) ==
    IF ~Exists(st, id) THEN Fail(HttpError("not found"), st)
    ELSE LET i == TabIndex(st[id].sheets, tab)
         IN IF i = 0 THEN Fail(HttpError("unable to parse range"), st)
            ELSE LET old == st[id].sheets[i].values
                 IN Ok([updates |-> [updatedRange |-> <<tab, Len(old) + 1,
                                                        Len(old) + Len(rows)>>,
                                     updatedCells |-> CellCount(rows)]],
                       SetValues(st, id, i, old \o rows))

\* ------------------------------------------------- control flow of a call
\* How a function body ends: it returns a value or an exception leaves it.
\* st is the remote store at that point, calls the remote calls issued.
Return(val, st, calls) == [kind |-> "return", val |-> val, st |-> st, calls |-> calls]

Raise(e, st, calls) == [kind |-> "raise", val |-> e, st |-> st, calls |-> calls]

\* CatchAll as `except` of the one class Exception itself: subclasses escape
CatchAll_bug(o) ==
    IF o.kind = "raise" /\ o.val.type = "Exception"
    THEN Return([sucesso |-> FALSE, erro |-> <<o.val.text>>], o.st, o.calls)
    ELSE o

\* except Exception as e: return {"sucesso": False, "erro": str(e)}
CatchAll(o) ==
    IF o.kind = "raise" /\ IsException(o.val)
    THEN Return([sucesso |-> FALSE, erro |-> <<o.val.text>>], o.st, o.calls)
    ELSE o

\* CatchHttp reporting the text under mensagem
CatchHttp_bug(o, prefix) ==
    IF o.kind = "raise" /\ o.val.type = "HttpError"
    THEN Return([sucesso |-> FALSE, mensagem |-> <<prefix, o.val.text>>], o.st, o.calls)
    ELSE o

\* except HttpError as e: return {"sucesso": False, "erro": f"{prefix}: {e}"}
CatchHttp(o, prefix) ==
    IF o.kind = "raise" /\ o.val.type = "HttpError"
    THEN Return([sucesso |-> FALSE, erro |-> <<prefix, o.val.text>>], o.st, o.calls)
    ELSE o

NaoInicializadoDrive == [erro |-> <<"Servicos Drive nao inicializados corretamente">>]

NaoInicializadoSheets == [erro |-> <<"Servicos Sheets nao inicializados corretamente">>]

Url(id) == <<"https://docs.google.com/spreadsheets/d/", id, "/edit">>

UrlGid(id, gid) == <<"https://docs.google.com/spreadsheets/d/", id, "/edit#gid=", gid>>

\* ------------------------------------------------------ init_drive_client
\* The credential blob of the environment, by what becomes of it.
CredKinds == {"missing", "not_json", "not_object", "rejected", "build_fails", "valid"}

\* init_drive_client without the handler of json.JSONDecodeError
init_drive_client_bug(c) ==
    IF c \in {"missing", "not_object", "rejected", "build_fails"} THEN None
    ELSE <<"drive", "sheets">>

init_drive_client(c) ==
    IF c = "missing" THEN None                 \* not creds_json
    ELSE IF c = "not_json" THEN None           \* json.JSONDecodeError
    ELSE IF c = "not_object" THEN None         \* creds_dict.get raises: outer except
    ELSE IF c = "rejected" THEN None           \* from_service_account_info raises
    ELSE IF c = "build_fails" THEN None        \* build(...) raises
    ELSE <<"drive", "sheets">>

\* ---------------------------------------------------------- criar_planilha
\* criar_planilha leaving the store as it found it when the grant fails
criar_planilha_body_desfaz(svc, st, nome_planilha, email_compartilhamento, flt) ==
    IF svc = None THEN Return(NaoInicializadoDrive, st, <<>>)
    ELSE
    LET c1 == Execute(1, flt, st, SpreadsheetsCreate(st, nome_planilha))
        k1 == <<"spreadsheets.create">>
    IN IF ~c1.ok THEN Raise(c1.exc, c1.st, k1)
       ELSE
       LET spreadsheet_id == c1.val.spreadsheetId
           share == email_compartilhamento # ""
           c2 == IF share
                 THEN Execute(2, flt, c1.st,
                          PermissionsCreate(c1.st, spreadsheet_id, email_compartilhamento))
                 ELSE Ok(None, c1.st)
           k2 == IF share THEN Append(k1, "permissions.create") ELSE k1
       IN IF ~c2.ok THEN Raise(c2.exc, st, k2)
          ELSE Return([sucesso |-> TRUE,
                       mensagem |-> <<"Planilha criada com sucesso", nome_planilha>>,
                       planilha_id |-> spreadsheet_id,
                       url |-> Url(spreadsheet_id),
                       compartilhada_com |-> email_compartilhamento], c2.st, k2)

\* criar_planilha declaring success whatever became of the grant
criar_planilha_body_ignora(svc, st, nome_planilha, email_compartilhamento, flt) ==
    IF svc = None THEN Return(NaoInicializadoDrive, st, <<>>)
    ELSE
    LET c1 == Execute(1, flt, st, SpreadsheetsCreate(st, nome_planilha))
        k1 == <<"spreadsheets.create">>
    IN IF ~c1.ok THEN Raise(c1.exc, c1.st, k1)
       ELSE
       LET spreadsheet_id == c1.val.spreadsheetId
           share == email_compartilhamento # ""
           c2 == IF share
                 THEN Execute(2, flt, c1.st,
                          PermissionsCreate(c1.st, spreadsheet_id, email_compartilhamento))
                 ELSE Ok(None, c1.st)
           k2 == IF share THEN Append(k1, "permissions.create") ELSE k1
       IN Return([sucesso |-> TRUE,
                  mensagem |-> <<"Planilha criada com sucesso", nome_planilha>>,
                  planilha_id |-> spreadsheet_id,
                  url |-> Url(spreadsheet_id),
                  compartilhada_com |-> email_compartilhamento], c2.st, k2)

\* criar_planilha sharing whatever the address is
criar_planilha_body_bug(svc, st, nome_planilha, email_compartilhamento, flt) ==
    IF svc = None THEN Return(NaoInicializadoDrive, st, <<>>)
    ELSE
    LET c1 == Execute(1, flt, st, SpreadsheetsCreate(st, nome_planilha))
        k1 == <<"spreadsheets.create">>
    IN IF ~c1.ok THEN Raise(c1.exc, c1.st, k1)
       ELSE
       LET spreadsheet_id == c1.val.spreadsheetId
           c2 == Execute(2, flt, c1.st,
                     PermissionsCreate(c1.st, spreadsheet_id, email_compartilhamento))
           k2 == Append(k1, "permissions.create")
       IN IF ~c2.ok THEN Raise(c2.exc, c2.st, k2)
          ELSE Return([sucesso |-> TRUE,
                       mensagem |-> <<"Planilha criada com sucesso", nome_planilha>>,
                       planilha_id |-> spreadsheet_id,
                       url |-> Url(spreadsheet_id),
                       compartilhada_com |-> email_compartilhamento], c2.st, k2)

criar_planilha_body(svc, st, nome_planilha, email_compartilhamento, flt) ==
    IF svc = None THEN Return(NaoInicializadoDrive, st, <<>>)
    ELSE
    LET c1 == Execute(1, flt, st, SpreadsheetsCreate(st, nome_planilha))
        k1 == <<"spreadsheets.create">>
    IN IF ~c1.ok THEN Raise(c1.exc, c1.st, k1)
       ELSE
       LET spreadsheet_id == c1.val.spreadsheetId
           share == email_compartilhamento # ""
           c2 == IF share
                 THEN Execute(2, flt, c1.st,
                          PermissionsCreate(c1.st, spreadsheet_id, email_compartilhamento))
                 ELSE Ok(None, c1.st)
           k2 == IF share THEN Append(k1, "permissions.create") ELSE k1
       IN IF ~c2.ok THEN Raise(c2.exc, c2.st, k2)
          ELSE Return([sucesso |-> TRUE,
                       mensagem |-> <<"Planilha criada com sucesso", nome_planilha>>,
                       planilha_id |-> spreadsheet_id,
                       url |-> Url(spreadsheet_id),
                       compartilhada_com |-> email_compartilhamento], c2.st, k2)

criar_planilha(svc, st, nome_planilha, email_compartilhamento, flt) ==
    CatchAll(criar_planilha_body(svc, st, nome_planilha, email_compartilhamento, flt))

\* -------------------------------------------------------- listar_planilhas
listar_planilhas_body(svc, st, limite, flt) ==
    IF svc = None THEN Return(NaoInicializadoDrive, st, <<>>)
    ELSE
    LET c1 == Execute(1, flt, st, FilesList(st, limite))
        k1 == <<"files.list">>
    IN IF ~c1.ok THEN Raise(c1.exc, c1.st, k1)
       ELSE
       LET items == Get(c1.val, "files", <<>>)
       IN IF items = <<>>
          THEN Return([sucesso |-> TRUE,
                       mensagem |-> <<"Nenhuma planilha encontrada">>,
                       planilhas |-> <<>>], c1.st, k1)
          ELSE LET planilhas == [i \in 1..Len(items) |->
                                    [id |-> items[i].id, nome |-> items[i].name,
                                     url |-> Url(items[i].id),
                                     data_criacao |-> Get(items[i], "createdTime", EmptyStr)]]
               IN Return([sucesso |-> TRUE,
                          mensagem |-> <<"Encontradas planilhas", Len(planilhas)>>,
                          planilhas |-> planilhas], c1.st, k1)

listar_planilhas(svc, st, limite, flt) ==
    CatchAll(listar_planilhas_body(svc, st, limite, flt))

\* ------------------------------------------------------------- listar_abas
\* listar_abas asking the store a second time when the first call fails
listar_abas_body_bug(svc, st, planilha_id, flt) ==
    IF svc = None THEN Return(NaoInicializadoSheets, st, <<>>)
    ELSE
    LET c1 == Execute(1, flt, st, SpreadsheetsGet(st, planilha_id))
    IN IF ~c1.ok
       THEN Raise(c1.exc, c1.st, <<"spreadsheets.get", "spreadsheets.get">>)
       ELSE Return([sucesso |-> TRUE,
                    mensagem |-> <<"Encontradas abas", Len(c1.val.sheets)>>,
                    planilha_id |-> planilha_id,
                    abas |-> <<>>], c1.st, <<"spreadsheets.get">>)

listar_abas_body(svc, st, planilha_id, flt) ==
    IF svc = None THEN Return(NaoInicializadoSheets, st, <<>>)
    ELSE
    LET c1 == Execute(1, flt, st, SpreadsheetsGet(st, planilha_id))
        k1 == <<"spreadsheets.get">>
    IN IF ~c1.ok THEN Raise(c1.exc, c1.st, k1)
       ELSE
       LET sheets == Get(c1.val, "sheets", <<>>)
           abas == [i \in 1..Len(sheets) |->
                       [id |-> sheets[i].properties.sheetId,
                        nome |-> sheets[i].properties.title,
                        indice |-> sheets[i].properties.index,
                        tipo |-> Get(sheets[i].properties, "sheetType", "GRID")]]
       IN Return([sucesso |-> TRUE,
                  mensagem |-> <<"Encontradas abas", Len(abas)>>,
                  planilha_id |-> planilha_id,
                  abas |-> abas], c1.st, k1)

listar_abas(svc, st, planilha_id, flt) ==
    CatchAll(CatchHttp(listar_abas_body(svc, st, planilha_id, flt),
                       "Nao foi possivel acessar a planilha"))

\* --------------------------------------------------------------- ler_dados
\* linha + [''] * (len(cabecalhos) - len(linha))
linha_ajustada(linha, cabecalhos) == linha \o Blanks(Len(cabecalhos) - Len(linha))

\* the dict built by `for i, cabecalho in enumerate(cabecalhos)`: one key per
\* distinct header text, a later column of the same text replacing an
\* earlier one
linha_dict(linha, cabecalhos) ==
    LET adj == linha_ajustada(linha, cabecalhos)
        LastCol(h) == CHOOSE i \in 1..Len(cabecalhos) :
                          /\ cabecalhos[i] = h
                          /\ \A j \in 1..Len(cabecalhos) : cabecalhos[j] = h => j <= i
    IN [h \in {cabecalhos[i] : i \in 1..Len(cabecalhos)} |->
            IF LastCol(h) <= Len(adj) THEN adj[LastCol(h)] ELSE EmptyStr]

\* the structured data of a non-empty `values`
dados_processados(values, incluir_cabecalhos) ==
    IF incluir_cabecalhos /\ Len(values) > 0
    THEN LET cabecalhos == values[1]
             dados_linhas == IF Len(values) > 1 THEN SubSeq(values, 2, Len(values))
                             ELSE <<>>
         IN [i \in 1..Len(dados_linhas) |-> linha_dict(dados_linhas[i], cabecalhos)]
    ELSE values

ler_dados_body(svc, st, planilha_id, nome_aba, intervalo, incluir_cabecalhos, flt) ==
    IF svc = None THEN Return(NaoInicializadoSheets, st, <<>>)
    ELSE
    LET range_name == IF intervalo # EmptyStr THEN <<nome_aba, intervalo>>
                      ELSE <<nome_aba>>
        c1 == Execute(1, flt, st, ValuesGet(st, planilha_id, range_name))
        k1 == <<"values.get">>
    IN IF ~c1.ok THEN Raise(c1.exc, c1.st, k1)
       ELSE
       LET values == Get(c1.val, "values", <<>>)
       IN IF values = <<>>
          THEN Return([sucesso |-> TRUE,
                       mensagem |-> <<"Aba vazia ou sem dados">>,
                       planilha_id |-> planilha_id,
                       aba_nome |-> nome_aba,
                       total_linhas |-> 0,
                       dados |-> <<>>], c1.st, k1)
          ELSE Return([sucesso |-> TRUE,
                       mensagem |-> <<"Dados lidos com sucesso da aba", nome_aba>>,
                       planilha_id |-> planilha_id,
                       aba_nome |-> nome_aba,
                       intervalo_lido |-> range_name,
                       total_linhas |-> Len(values),
                       cabecalhos |-> IF incluir_cabecalhos /\ Len(values) > 0
                                      THEN values[1] ELSE None,
                       dados |-> dados_processados(values, incluir_cabecalhos)],
                      c1.st, k1)

ler_dados(svc, st, planilha_id, nome_aba, intervalo, incluir_cabecalhos, flt) ==
    CatchAll(CatchHttp(
        ler_dados_body(svc, st, planilha_id, nome_aba, intervalo, incluir_cabecalhos, flt),
        "Nao foi possivel acessar a planilha ou aba"))

\* -------------------------------------------------------------- ler_celula
\* a cell address <<r, c>> names the rectangle of that one cell
CellRange(celula) == <<celula[1], celula[2], celula[1], celula[2]>>

\* line 394 without its else "": None for a missing value
valor_de_bug(values) ==
    IF values # <<>> /\ Len(values[1]) > 0 THEN values[1][1] ELSE None

\* values[0][0] if values and len(values[0]) > 0 else ""
valor_de(values) ==
    IF values # <<>> /\ Len(values[1]) > 0 THEN values[1][1] ELSE EmptyStr

ler_celula_body(svc, st, planilha_id, nome_aba, celula, flt) ==
    IF svc = None THEN Return(NaoInicializadoSheets, st, <<>>)
    ELSE
    LET range_name == <<nome_aba, CellRange(celula)>>
        c1 == Execute(1, flt, st, ValuesGet(st, planilha_id, range_name))
        k1 == <<"values.get">>
    IN IF ~c1.ok THEN Raise(c1.exc, c1.st, k1)
       ELSE
       LET values == Get(c1.val, "values", <<>>)
           valor == valor_de(values)
       IN Return([sucesso |-> TRUE,
                  mensagem |-> <<"Valor da celula lido com sucesso", celula>>,
                  planilha_id |-> planilha_id,
                  aba_nome |-> nome_aba,
                  celula |-> celula,
                  valor |-> valor], c1.st, k1)

ler_celula(svc, st, planilha_id, nome_aba, celula, flt) ==
    CatchAll(ler_celula_body(svc, st, planilha_id, nome_aba, celula, flt))

\* ------------------------------------------------------------ buscar_dados
\* whether data row `linha` (a dict) is a match
linha_casa(linha, termo_busca, coluna_busca) ==
    IF Truthy(coluna_busca) /\ coluna_busca \in DOMAIN linha
    THEN StrIn(Lower(termo_busca), Lower(linha[coluna_busca]))
    ELSE IF ~Truthy(coluna_busca)
    THEN \E h \in DOMAIN linha : StrIn(Lower(termo_busca), Lower(linha[h]))
    ELSE FALSE

\* the loop numbering the rows i + 1
RECURSIVE resultados_de_bug(_, _, _, _)
resultados_de_bug(dados, k, termo_busca, coluna_busca) ==
    IF k > Len(dados) THEN <<>>
    ELSE LET rest == resultados_de_bug(dados, k + 1, termo_busca, coluna_busca)
         IN IF linha_casa(dados[k], termo_busca, coluna_busca)
            THEN <<[linha |-> (k - 1) + 1, dados |-> dados[k]]>> \o rest
            ELSE rest

\* the loop `for i, linha in enumerate(dados)`: Python's i is k - 1
RECURSIVE resultados_de(_, _, _, _)
resultados_de(dados, k, termo_busca, coluna_busca) ==
    IF k > Len(dados) THEN <<>>
    ELSE LET rest == resultados_de(dados, k + 1, termo_busca, coluna_busca)
         IN IF linha_casa(dados[k], termo_busca, coluna_busca)
            THEN <<[linha |-> (k - 1) + 2, dados |-> dados[k]]>> \o rest
            ELSE rest

buscar_dados_body(svc, st, planilha_id, nome_aba, termo_busca, coluna_busca, flt) ==
    LET leitura == ler_dados(svc, st, planilha_id, nome_aba, EmptyStr, TRUE, flt)
    IN IF leitura.kind = "raise" THEN leitura
       ELSE
       LET resultado_leitura == leitura.val
       IN IF Get(resultado_leitura, "sucesso", FALSE) # TRUE
          THEN Return(resultado_leitura, leitura.st, leitura.calls)
          ELSE
          LET dados == Get(resultado_leitura, "dados", <<>>)
              resultados == resultados_de(dados, 1, termo_busca, coluna_busca)
          IN Return([sucesso |-> TRUE,
                     mensagem |-> <<"Busca concluida: resultados encontrados",
                                    Len(resultados)>>,
                     planilha_id |-> planilha_id,
                     aba_nome |-> nome_aba,
                     termo_busca |-> termo_busca,
                     coluna_busca |-> coluna_busca,
                     total_resultados |-> Len(resultados),
                     resultados |-> resultados], leitura.st, leitura.calls)

buscar_dados(svc, st, planilha_id, nome_aba, termo_busca, coluna_busca, flt) ==
    CatchAll(buscar_dados_body(svc, st, planilha_id, nome_aba, termo_busca,
                               coluna_busca, flt))

\* ---------------------------------------------------------- criar_nova_aba
\* the test for another wording of the error
MentionsAlreadyExists_bug(text) == text = "duplicate"

\* "already exists" in str(e), for the error texts of the model
MentionsAlreadyExists(text) == text = "already exists"

\* except HttpError as e of criar_nova_aba
CatchHttpCriarAba(o, nome_aba) ==
    IF o.kind = "raise" /\ o.val.type = "HttpError"
    THEN IF MentionsAlreadyExists(o.val.text)
         THEN Return([sucesso |-> FALSE,
                      erro |-> <<"Ja existe uma aba com o nome", nome_aba>>],
                     o.st, o.calls)
         ELSE Return([sucesso |-> FALSE, erro |-> <<o.val.text>>], o.st, o.calls)
    ELSE o

criar_nova_aba_body(svc, st, planilha_id, nome_aba, flt) ==
    IF svc = None THEN Return(NaoInicializadoSheets, st, <<>>)
    ELSE
    LET c1 == Execute(1, flt, st, SpreadsheetsGet(st, planilha_id))
        k1 == <<"spreadsheets.get">>
    IN IF ~c1.ok
       THEN IF c1.exc.type = "HttpError"
            THEN Return([sucesso |-> FALSE,
                         erro |-> <<"Nao foi possivel acessar a planilha", c1.exc.text>>],
                        c1.st, k1)
            ELSE Raise(c1.exc, c1.st, k1)
       ELSE
       LET c2 == Execute(2, flt, c1.st, BatchUpdateAddSheet(c1.st, planilha_id, nome_aba))
           k2 == Append(k1, "spreadsheets.batchUpdate")
       IN IF ~c2.ok THEN Raise(c2.exc, c2.st, k2)
          ELSE
          LET response == c2.val
              sheet_id == IF "replies" \in DOMAIN response /\ response.replies # <<>>
                             /\ "addSheet" \in DOMAIN response.replies[1]
                          THEN response.replies[1].addSheet.properties.sheetId
                          ELSE None
          IN Return([sucesso |-> TRUE,
                     mensagem |-> <<"Aba criada com sucesso", nome_aba>>,
                     planilha_id |-> planilha_id,
                     aba_nome |-> nome_aba,
                     aba_id |-> sheet_id,
                     url |-> UrlGid(planilha_id, sheet_id)], c2.st, k2)

criar_nova_aba(svc, st, planilha_id, nome_aba, flt) ==
    CatchAll(CatchHttpCriarAba(criar_nova_aba_body(svc, st, planilha_id, nome_aba, flt),
                               nome_aba))

\* ------------------------------------- the tab check of the two writers
\* aba_encontrada set by any sheet, whatever its title
aba_encontrada_bug(planilha_info, nome_aba) ==
    Get(planilha_info, "sheets", <<>>) # <<>>

\* for sheet in planilha_info.get('sheets', []): title == nome_aba
aba_encontrada(planilha_info, nome_aba) ==
    LET sheets == Get(planilha_info, "sheets", <<>>)
    IN \E i \in 1..Len(sheets) : sheets[i].properties.title = nome_aba

\* the inner try of sobrescrever_aba and adicionar_celulas: the lookup, and
\* what the function returns or raises when it does not go on
verifica_aba(st, planilha_id, nome_aba, flt) ==
    LET c1 == Execute(1, flt, st, SpreadsheetsGet(st, planilha_id))
        k1 == <<"spreadsheets.get">>
    IN IF ~c1.ok
       THEN IF c1.exc.type = "HttpError"
            THEN Return([sucesso |-> FALSE,
                         erro |-> <<"Nao foi possivel acessar a planilha", c1.exc.text>>],
                        c1.st, k1)
            ELSE Raise(c1.exc, c1.st, k1)
       ELSE IF ~aba_encontrada(c1.val, nome_aba)
       THEN Return([sucesso |-> FALSE,
                    erro |-> <<"Aba nao encontrada na planilha", nome_aba>>],
                   c1.st, k1)
       ELSE [kind |-> "continue", val |-> c1.val, st |-> c1.st, calls |-> k1]

\* -------------------------------------------------------- sobrescrever_aba
\* sobrescrever_aba without the clear call
sobrescrever_aba_body_bug(svc, st, planilha_id, nome_aba, dados, flt) ==
    IF svc = None THEN Return(NaoInicializadoSheets, st, <<>>)
    ELSE
    LET v == verifica_aba(st, planilha_id, nome_aba, flt)
    IN IF v.kind # "continue" THEN v
       ELSE
       LET c3 == Execute(2, flt, v.st, ValuesUpdate(v.st, planilha_id, nome_aba, dados))
           k3 == Append(v.calls, "values.update")
       IN IF ~c3.ok THEN Raise(c3.exc, c3.st, k3)
          ELSE Return([sucesso |-> TRUE,
                       mensagem |-> <<"Dados sobrescritos na aba", nome_aba>>,
                       planilha_id |-> planilha_id,
                       aba_nome |-> nome_aba,
                       celulas_atualizadas |-> Get(c3.val, "updatedCells", None),
                       url |-> UrlGid(planilha_id, 0)], c3.st, k3)

\* sobrescrever_aba putting the earlier content back when the update fails
sobrescrever_aba_body_restaura(svc, st, planilha_id, nome_aba, dados, flt) ==
    IF svc = None THEN Return(NaoInicializadoSheets, st, <<>>)
    ELSE
    LET v == verifica_aba(st, planilha_id, nome_aba, flt)
    IN IF v.kind # "continue" THEN v
       ELSE
       LET c2 == Execute(2, flt, v.st, ValuesClear(v.st, planilha_id, nome_aba))
           k2 == Append(v.calls, "values.clear")
       IN IF ~c2.ok THEN Raise(c2.exc, c2.st, k2)
          ELSE
          LET c3 == Execute(3, flt, c2.st, ValuesUpdate(c2.st, planilha_id, nome_aba, dados))
              k3 == Append(k2, "values.update")
          IN IF ~c3.ok THEN Raise(c3.exc, st, k3)
             ELSE Return([sucesso |-> TRUE,
                          mensagem |-> <<"Dados sobrescritos na aba", nome_aba>>,
                          planilha_id |-> planilha_id,
                          aba_nome |-> nome_aba,
                          celulas_atualizadas |-> Get(c3.val, "updatedCells", None),
                          url |-> UrlGid(planilha_id, 0)], c3.st, k3)

sobrescrever_aba_body(svc, st, planilha_id, nome_aba, dados, flt) ==
    IF svc = None THEN Return(NaoInicializadoSheets, st, <<>>)
    ELSE
    LET v == verifica_aba(st, planilha_id, nome_aba, flt)
    IN IF v.kind # "continue" THEN v
       ELSE
       LET c2 == Execute(2, flt, v.st, ValuesClear(v.st, planilha_id, nome_aba))
           k2 == Append(v.calls, "values.clear")
       IN IF ~c2.ok THEN Raise(c2.exc, c2.st, k2)
          ELSE
          LET c3 == Execute(3, flt, c2.st, ValuesUpdate(c2.st, planilha_id, nome_aba, dados))
              k3 == Append(k2, "values.update")
          IN IF ~c3.ok THEN Raise(c3.exc, c3.st, k3)
             ELSE Return([sucesso |-> TRUE,
                          mensagem |-> <<"Dados sobrescritos na aba", nome_aba>>,
                          planilha_id |-> planilha_id,
                          aba_nome |-> nome_aba,
                          celulas_atualizadas |-> Get(c3.val, "updatedCells", None),
                          url |-> UrlGid(planilha_id, 0)], c3.st, k3)

sobrescrever_aba(svc, st, planilha_id, nome_aba, dados, flt) ==
    CatchAll(sobrescrever_aba_body(svc, st, planilha_id, nome_aba, dados, flt))

\* ------------------------------------------------------- adicionar_celulas
\* adicionar_celulas writing the rows from A1, as values().update does
adicionar_celulas_body_bug(svc, st, planilha_id, nome_aba, dados, flt) ==
    IF svc = None THEN Return(NaoInicializadoSheets, st, <<>>)
    ELSE
    LET v == verifica_aba(st, planilha_id, nome_aba, flt)
    IN IF v.kind # "continue" THEN v
       ELSE
       LET c2 == Execute(2, flt, v.st, ValuesUpdate(v.st, planilha_id, nome_aba, dados))
           k2 == Append(v.calls, "values.append")
       IN IF ~c2.ok THEN Raise(c2.exc, c2.st, k2)
          ELSE Return([sucesso |-> TRUE,
                       mensagem |-> <<"Dados adicionados a aba", nome_aba>>,
                       planilha_id |-> planilha_id,
                       aba_nome |-> nome_aba,
                       celulas_adicionadas |-> c2.val.updatedCells,
                       intervalo_atualizado |-> EmptyStr,
                       url |-> UrlGid(planilha_id, 0)], c2.st, k2)

adicionar_celulas_body(svc, st, planilha_id, nome_aba, dados, flt) ==
    IF svc = None THEN Return(NaoInicializadoSheets, st, <<>>)
    ELSE
    LET v == verifica_aba(st, planilha_id, nome_aba, flt)
    IN IF v.kind # "continue" THEN v
       ELSE
       LET c2 == Execute(2, flt, v.st, ValuesAppend(v.st, planilha_id, nome_aba, dados))
           k2 == Append(v.calls, "values.append")
       IN IF ~c2.ok THEN Raise(c2.exc, c2.st, k2)
          ELSE
          LET updates == Get(c2.val, "updates", [x \in {} |-> 0])
          IN Return([sucesso |-> TRUE,
                     mensagem |-> <<"Dados adicionados a aba", nome_aba>>,
                     planilha_id |-> planilha_id,
                     aba_nome |-> nome_aba,
                     celulas_adicionadas |-> Get(updates, "updatedCells", 0),
                     intervalo_atualizado |-> Get(updates, "updatedRange", EmptyStr),
                     url |-> UrlGid(planilha_id, 0)], c2.st, k2)

adicionar_celulas(svc, st, planilha_id, nome_aba, dados, flt) ==
    CatchAll(adicionar_celulas_body(svc, st, planilha_id, nome_aba, dados, flt))

\* ------------------------------------------------------ the REST handlers
\* try: result = drive.f(...); return {"result": result}
\* except Exception as e: raise HTTPException(status_code=500, detail=str(e))
\* a handler answering 500 for a record that reports failure
rest_response_bug(o) ==
    IF o.kind = "return" /\ Get(o.val, "sucesso", TRUE) = TRUE
    THEN [status |-> 200, body |-> [result |-> o.val]]
    ELSE [status |-> 500, detail |-> <<"erro">>]

rest_response(o) ==
    IF o.kind = "return" THEN [status |-> 200, body |-> [result |-> o.val]]
    ELSE [status |-> 500, detail |-> <<o.val.text>>]

\* what is remembered of a served request
Served(op, args, flt, o) ==
    [op |-> op, args |-> args, flt |-> flt,
     kind |-> o.kind, val |-> o.val, calls |-> o.calls,
     http |-> rest_response(o)]

\* ------------------------------------------- the natural-language endpoint
\* The model's reply is a text of tokens: a code fence, white space, a word,
\* or the text of one JSON object (v is the object it denotes).
Fence == [t |-> "fence"]

Ws == [t |-> "ws"]

Word(w) == [t |-> "word", w |-> w]

Json(v) == [t |-> "json", v |-> v]

\* str.strip()
RECURSIVE Strip(_)
Strip(s) ==
    IF s = <<>> THEN s
    ELSE IF s[1].t = "ws" THEN Strip(Tail(s))
    ELSE IF s[Len(s)].t = "ws" THEN Strip(SubSeq(s, 1, Len(s) - 1))
    ELSE s

\* "```" in content
HasFence(s) == \E k \in 1..Len(s) : s[k].t = "fence"

\* content.split("```")
RECURSIVE SplitFence(_)
SplitFence(s) ==
    IF ~HasFence(s) THEN <<s>>
    ELSE LET k == CHOOSE k \in 1..Len(s) :
                      s[k].t = "fence" /\ \A j \in 1..(k - 1) : s[j].t # "fence"
         IN <<SubSeq(s, 1, k - 1)>> \o SplitFence(SubSeq(s, k + 1, Len(s)))

\* lines 436-438: the text handed to json.loads
conteudo(text) ==
    LET content == Strip(text)
    IN IF HasFence(content)
       THEN Strip(SplitFence(SplitFence(content)[2])[1])
       ELSE content

\* json.loads: the text must be exactly one JSON value
json_loads(content) ==
    IF Len(content) = 1 /\ content[1].t = "json"
    THEN [ok |-> TRUE, val |-> content[1].v]
    ELSE [ok |-> FALSE, exc |-> PyException("JSONDecodeError", "Expecting value")]

HTTPException(status_code, detail) ==
    [type |-> "HTTPException", text |-> detail, status_code |-> status_code]

\* f(**parametros): the keywords must cover the parameters without default
\* and name only parameters
Binds(parametros, required, optional) ==
    /\ required \subseteq DOMAIN parametros
    /\ DOMAIN parametros \subseteq (required \cup optional)

DefaultEmail == "compliancenuoropay@gmail.com"

\* the None that parsed_response.get("tipo_consulta") gives for a missing
\* key, among operation names
NoTipo == "None"

\* names of the dispatch chain of perguntar
TiposConsulta == {"criar_planilha", "listar_planilhas", "listar_abas", "ler_dados",
                  "ler_celula", "buscar_dados", "criar_aba", "sobrescrever_aba",
                  "adicionar_celulas"}

\* the call answering a bad keyword list with a failure record
TypeErr_bug(st) ==
    Return([sucesso |-> FALSE, erro |-> <<"unexpected or missing argument">>], st, <<>>)

TypeErr(st) == Raise(PyException("TypeError", "unexpected or missing argument"), st, <<>>)

\* lines 444-465: the if/elif chain, each branch a call drive.f(**parametros)
dispatch(svc, st, tipo_consulta, p) ==
    IF tipo_consulta = "criar_planilha"
    THEN IF Binds(p, {"nome_planilha"}, {"email_compartilhamento"})
         THEN criar_planilha(svc, st, p.nome_planilha,
                             Get(p, "email_compartilhamento", DefaultEmail), NoFault)
         ELSE TypeErr(st)
    ELSE IF tipo_consulta = "listar_planilhas"
    THEN IF Binds(p, {}, {"limite"})
         THEN listar_planilhas(svc, st, Get(p, "limite", 20), NoFault)
         ELSE TypeErr(st)
    ELSE IF tipo_consulta = "listar_abas"
    THEN IF Binds(p, {"planilha_id"}, {})
         THEN listar_abas(svc, st, p.planilha_id, NoFault)
         ELSE TypeErr(st)
    ELSE IF tipo_consulta = "ler_dados"
    THEN IF Binds(p, {"planilha_id"}, {"nome_aba", "intervalo", "incluir_cabecalhos"})
         THEN ler_dados(svc, st, p.planilha_id, Get(p, "nome_aba", "Principal"),
                        Get(p, "intervalo", EmptyStr),
                        Get(p, "incluir_cabecalhos", TRUE), NoFault)
         ELSE TypeErr(st)
    ELSE IF tipo_consulta = "ler_celula"
    THEN IF Binds(p, {"planilha_id", "nome_aba", "celula"}, {})
         THEN ler_celula(svc, st, p.planilha_id, p.nome_aba, p.celula, NoFault)
         ELSE TypeErr(st)
    ELSE IF tipo_consulta = "buscar_dados"
    THEN IF Binds(p, {"planilha_id", "nome_aba", "termo_busca"}, {"coluna_busca"})
         THEN buscar_dados(svc, st, p.planilha_id, p.nome_aba, p.termo_busca,
                           Get(p, "coluna_busca", None), NoFault)
         ELSE TypeErr(st)
    ELSE IF tipo_consulta = "criar_aba"
    THEN IF Binds(p, {"planilha_id", "nome_aba"}, {"linhas", "colunas"})
         THEN criar_nova_aba(svc, st, p.planilha_id, p.nome_aba, NoFault)
         ELSE TypeErr(st)
    ELSE IF tipo_consulta = "sobrescrever_aba"
    THEN IF Binds(p, {"planilha_id", "nome_aba", "dados"}, {})
         THEN sobrescrever_aba(svc, st, p.planilha_id, p.nome_aba, p.dados, NoFault)
         ELSE TypeErr(st)
    ELSE IF tipo_consulta = "adicionar_celulas"
    THEN IF Binds(p, {"planilha_id", "nome_aba", "dados"}, {})
         THEN adicionar_celulas(svc, st, p.planilha_id, p.nome_aba, p.dados, NoFault)
         ELSE TypeErr(st)
    ELSE Raise(HTTPException(400, "Tipo de consulta nao reconhecido"), st, <<>>)

\* How the body of perguntar ends.  llm: the model calls made; executou: an
\* operation of drive was entered; calls: the remote calls it issued.
Fim(kind, val, st, llm, tipo, executou, calls) ==
    [kind |-> kind, val |-> val, st |-> st, llm |-> llm, tipo |-> tipo,
     executou |-> executou, calls |-> calls]

\* lines 467-482: the narration call and the returned record, or the
\* exception the dispatched call d raised
\* apos_dispatch answering with the raw result when the narration call fails
apos_dispatch_bug(d, pergunta, tipo_consulta, parametros, falha) ==
    IF d.kind = "raise"
    THEN Fim("raise", d.val, d.st, <<"traducao">>, tipo_consulta,
             d.val.type \notin {"TypeError", "HTTPException"}, d.calls)
    ELSE Fim("return",
             [pergunta |-> pergunta, tipo_consulta |-> tipo_consulta,
              parametros |-> parametros, resultado_bruto |-> d.val,
              interpretacao |-> IF falha = 2 THEN None ELSE <<"texto">>],
             d.st, <<"traducao", "interpretacao">>, tipo_consulta, TRUE, d.calls)

apos_dispatch(d, pergunta, tipo_consulta, parametros, falha) ==
    IF d.kind = "raise"
    THEN Fim("raise", d.val, d.st, <<"traducao">>, tipo_consulta,
             d.val.type \notin {"TypeError", "HTTPException"}, d.calls)
    ELSE IF falha = 2
    THEN Fim("raise", PyException("Exception", "anthropic"), d.st,
             <<"traducao", "interpretacao">>, tipo_consulta, TRUE, d.calls)
    ELSE Fim("return",
             [pergunta |-> pergunta, tipo_consulta |-> tipo_consulta,
              parametros |-> parametros, resultado_bruto |-> d.val,
              interpretacao |-> <<"texto">>],
             d.st, <<"traducao", "interpretacao">>, tipo_consulta, TRUE, d.calls)

\* lines 441-465: tipo_consulta and parametros of the parsed reply, then the
\* dispatch
apos_traducao(svc, st, pergunta, tipo_consulta, parametros, falha) ==
    apos_dispatch(dispatch(svc, st, tipo_consulta, parametros),
                  pergunta, tipo_consulta, parametros, falha)

\* apos_json asking the model again when the reply does not parse
apos_json_bug(j, svc, st, pergunta, falha) ==
    IF ~j.ok
    THEN Fim("raise", j.exc, st, <<"traducao", "traducao">>, NoTipo, FALSE, <<>>)
    ELSE apos_traducao(svc, st, pergunta, Get(j.val, "tipo_consulta", NoTipo),
                       Get(j.val, "parametros", <<>>), falha)

\* lines 436-442: the reply j parsed by json.loads
apos_json(j, svc, st, pergunta, falha) ==
    IF ~j.ok THEN Fim("raise", j.exc, st, <<"traducao">>, NoTipo, FALSE, <<>>)
    ELSE apos_traducao(svc, st, pergunta, Get(j.val, "tipo_consulta", NoTipo),
                       Get(j.val, "parametros", <<>>), falha)

\* perguntar_body without the check of the key at lines 375-376
perguntar_body_bug(key, svc, st, pergunta, text, falha) ==
    IF falha = 1
    THEN Fim("raise", PyException("Exception", "anthropic"), st,
             <<"traducao">>, NoTipo, FALSE, <<>>)
    ELSE apos_json(json_loads(conteudo(text)), svc, st, pergunta, falha)

\* lines 375-482; falha names the model call that fails (0: none)
perguntar_body(key, svc, st, pergunta, text, falha) ==
    IF ~key
    THEN Fim("raise", HTTPException(500, "Chave API do Claude nao configurada"),
             st, <<>>, NoTipo, FALSE, <<>>)
    ELSE IF falha = 1
    THEN Fim("raise", PyException("Exception", "anthropic"), st,
             <<"traducao">>, NoTipo, FALSE, <<>>)
    ELSE apos_json(json_loads(conteudo(text)), svc, st, pergunta, falha)

\* lines 484-486: except Exception as e: raise HTTPException(status_code=500, ...)
CatchPerguntar(b) ==
    IF b.kind = "raise" /\ IsException(b.val)
    THEN [b EXCEPT !.val = HTTPException(500, "Erro ao processar pergunta")]
    ELSE b

perguntar(key, svc, st, pergunta, text, falha) ==
    CatchPerguntar(perguntar_body(key, svc, st, pergunta, text, falha))

\* the response the framework sends for a handler that returned or raised
http_response(o) ==
    IF o.kind = "return" THEN [status |-> 200, body |-> o.val]
    ELSE IF o.val.type = "HTTPException"
    THEN [status |-> o.val.status_code, detail |-> o.val.text]
    ELSE [status |-> 500, detail |-> "Internal Server Error"]

\* ------------------------------------------------------ request inputs
\* titles of the spreadsheets clients create, each created once
Nomes == {"Q1"}

TabNames == {"Principal", "Vendas"}

\* the share address of a creation request: none, or the default of the
\* request schema
Emails == {"", DefaultEmail}

\* ids a request names: the id no spreadsheet has, and the existing ones
Ids == 0..Len(store)

\* the spreadsheet and tab a request names
Targets == {<<0, "Principal">>} \cup
           {<<id, aba>> : id \in 1..Len(store), aba \in TabNames}

\* (intervalo, incluir_cabecalhos) of a read
Leituras == {<<EmptyStr, TRUE>>, <<EmptyStr, FALSE>>, <<<<1, 1, 1, 2>>, TRUE>>}

Celulas == {<<1, 1>>}

Termos == {Ca}

Colunas == {None, Ca}

\* rows a client writes: nothing, or one cell
DadosInputs == {<<>>, << <<Ca>> >>}

\* what the model answers to a question
Consulta(tipo, parametros) == Json([tipo_consulta |-> tipo, parametros |-> parametros])

Objetos == {
    Consulta("listar_planilhas", <<>>),
    Consulta("criar_planilha", [nome_planilha |-> "Q1"]),
    Consulta("listar_abas", [planilha_id |-> 1]),
    Consulta("ler_dados", [planilha_id |-> 1]),
    Consulta("ler_celula", [planilha_id |-> 1, nome_aba |-> "Principal", celula |-> <<1, 1>>]),
    Consulta("ler_celula", [planilha_id |-> 1, nome_aba |-> "Principal"]),
    Consulta("buscar_dados", [planilha_id |-> 1, nome_aba |-> "Principal", termo_busca |-> Ca]),
    Consulta("criar_aba", [planilha_id |-> 1, nome_aba |-> "Vendas"]),
    Consulta("sobrescrever_aba", [planilha_id |-> 1, nome_aba |-> "Principal",
                                  dados |-> << <<Ca>> >>]),
    Consulta("adicionar_celulas", [planilha_id |-> 1, nome_aba |-> "Vendas",
                                   dados |-> << <<Ca>> >>]),
    Consulta("apagar_planilha", [planilha_id |-> 1])}

Respostas ==
    {<<j>> : j \in Objetos} \cup
    {<<Fence, Ws, Consulta("listar_planilhas", <<>>), Ws, Fence>>,
     <<Fence, Word("json"), Ws, Consulta("listar_planilhas", <<>>), Ws, Fence>>,
     <<Word("Claro"), Ws, Consulta("listar_planilhas", <<>>)>>}

\* every tab holds at most n rows
CabeNaAba(st, n) ==
    \A id \in 1..Len(st) : \A i \in 1..Len(st[id].sheets) :
        Len(st[id].sheets[i].values) <= n

\* Serve initialising the clients again when they are None
Serve_bug(op, args, flt, o) ==
    /\ store' = o.st
    /\ last' = Served(op, args, flt, o)
    /\ services' = IF services = None THEN init_drive_client("valid") ELSE services
    /\ UNCHANGED <<creds, api_key, inp>>

\* a request was served: the store is what the operation left, the rest of
\* the process state is untouched
Serve(op, args, flt, o) ==
    /\ store' = o.st
    /\ last' = Served(op, args, flt, o)
    /\ UNCHANGED <<creds, api_key, services, inp>>

\* ------------------------------------------------------------------ Init
Init ==
    /\ creds \in CredKinds
    /\ api_key \in BOOLEAN
    /\ services = init_drive_client(creds)
    /\ store = <<>>
    /\ last = [op |-> "none"]
    /\ inp = <<>>

\* ---------------------------------------------------------------- actions
api_criar_planilha ==
    \E nome \in Nomes, email \in Emails, flt \in Faults(2) :
        \E o \in {criar_planilha(services, store, nome, email, flt)} :
           /\ \A i \in 1..Len(store) : store[i].title # nome
           /\ Serve("criar_planilha",
                    [nome_planilha |-> nome, email_compartilhamento |-> email], flt, o)

api_listar_planilhas ==
    \E limite \in {1, 20}, flt \in Faults(1) :
        \E o \in {listar_planilhas(services, store, limite, flt)} :
           Serve("listar_planilhas", [limite |-> limite], flt, o)

api_listar_abas ==
    \E id \in Ids, flt \in Faults(1) :
        \E o \in {listar_abas(services, store, id, flt)} :
           Serve("listar_abas", [planilha_id |-> id], flt, o)

ApiLerDados(targets, leituras, faults) ==
    \E t \in targets, l \in leituras, flt \in faults :
        \E o \in {ler_dados(services, store, t[1], t[2], l[1], l[2], flt)} :
           Serve("ler_dados",
                 [planilha_id |-> t[1], nome_aba |-> t[2],
                  intervalo |-> l[1], incluir_cabecalhos |-> l[2]], flt, o)

api_ler_dados == ApiLerDados(Targets, Leituras, Faults(1))

ApiLerCelula(targets, celulas, faults) ==
    \E t \in targets, celula \in celulas, flt \in faults :
        \E o \in {ler_celula(services, store, t[1], t[2], celula, flt)} :
           Serve("ler_celula",
                 [planilha_id |-> t[1], nome_aba |-> t[2], celula |-> celula], flt, o)

api_ler_celula == ApiLerCelula(Targets, Celulas, Faults(1))

ApiBuscarDados(targets, termos, colunas, faults) ==
    \E t \in targets, termo \in termos, coluna \in colunas, flt \in faults :
        \E o \in {buscar_dados(services, store, t[1], t[2], termo, coluna, flt)} :
           Serve("buscar_dados",
                 [planilha_id |-> t[1], nome_aba |-> t[2],
                  termo_busca |-> termo, coluna_busca |-> coluna], flt, o)

api_buscar_dados == ApiBuscarDados(Targets, Termos, Colunas, Faults(1))

api_criar_aba ==
    \E t \in Targets, flt \in Faults(2) :
        \E o \in {criar_nova_aba(services, store, t[1], t[2], flt)} :
           Serve("criar_nova_aba", [planilha_id |-> t[1], nome_aba |-> t[2]], flt, o)

api_sobrescrever_aba ==
    \E t \in Targets, dados \in DadosInputs, flt \in Faults(3) :
        \E o \in {sobrescrever_aba(services, store, t[1], t[2], dados, flt)} :
           /\ CabeNaAba(o.st, MaxLinhas)
           /\ Serve("sobrescrever_aba",
                    [planilha_id |-> t[1], nome_aba |-> t[2], dados |-> dados], flt, o)

api_adicionar_celulas ==
    \E t \in Targets, dados \in DadosInputs, flt \in Faults(2) :
        \E o \in {adicionar_celulas(services, store, t[1], t[2], dados, flt)} :
           /\ CabeNaAba(o.st, MaxLinhas)
           /\ Serve("adicionar_celulas",
                    [planilha_id |-> t[1], nome_aba |-> t[2], dados |-> dados], flt, o)

api_perguntar ==
    \E text \in Respostas, falha \in 0..2 :
        \E o \in {perguntar(api_key, services, store, "pergunta", text, falha)} :
           /\ falha = 1 => text = <<Consulta("listar_planilhas", <<>>)>>
           /\ CabeNaAba(o.st, MaxLinhas)
           /\ \A i, k \in 1..Len(o.st) : o.st[i].title = o.st[k].title => i = k
           /\ store' = o.st
           /\ last' = [op |-> "perguntar", args |-> [resposta |-> text, falha |-> falha],
                       kind |-> o.kind, val |-> o.val, calls |-> o.calls,
                       llm |-> o.llm, tipo |-> o.tipo, executou |-> o.executou,
                       http |-> http_response(o)]
           /\ UNCHANGED <<creds, api_key, services, inp>>

Next ==
    \/ api_criar_planilha
    \/ api_listar_planilhas
    \/ api_listar_abas
    \/ api_ler_dados
    \/ api_ler_celula
    \/ api_buscar_dados
    \/ api_criar_aba
    \/ api_sobrescrever_aba
    \/ api_adicionar_celulas
    \/ api_perguntar

Spec == Init /\ [][Next]_vars

\* ------------------------------------------------------- read scenarios
\* A spreadsheet with the one tab "Principal" holding grid g, as the store
\* keeps it.
UmaAba(g) ==
    <<[title |-> "Q1",
       sheets |-> <<[title |-> "Principal", sheetId |-> 0, values |-> TrimGrid(g)]>>,
       permissions |-> {}]>>

\* The tab holds any grid within the bounds (people edit spreadsheets outside
\* this service); the clients are initialised; only reads are served.
CelulasLeitura == {EmptyStr, Cab}

InitLeitura ==
    /\ creds = "valid"
    /\ api_key = TRUE
    /\ services = init_drive_client(creds)
    /\ store \in {UmaAba(g) : g \in Grades(CelulasLeitura, MaxRows, MaxCols)}
    /\ last = [op |-> "none"]
    /\ inp = <<>>

LeiturasL == {<<EmptyStr, TRUE>>, <<EmptyStr, FALSE>>,
              <<<<1, 1, 1, 2>>, TRUE>>, <<<<2, 1, 3, 2>>, FALSE>>}

CelulasL == {<<1, 1>>, <<2, 2>>}

TermosL == {EmptyStr, <<"B">>, <<"b", "a">>}

ColunasL == {None, EmptyStr, Ca, Cab}

\* one read per run: a read leaves the store as it found it
leitura_ler_dados ==
    /\ last.op = "none"
    /\ ApiLerDados({<<1, "Principal">>}, LeiturasL, {NoFault})

leitura_ler_celula ==
    /\ last.op = "none"
    /\ ApiLerCelula({<<1, "Principal">>}, CelulasL, {NoFault})

leitura_buscar_dados ==
    /\ last.op = "none"
    /\ ApiBuscarDados({<<1, "Principal">>}, TermosL, ColunasL, {NoFault})

NextLeitura ==
    \/ leitura_ler_dados
    \/ leitura_ler_celula
    \/ leitura_buscar_dados

SpecLeitura == InitLeitura /\ [][NextLeitura]_vars

\* ------------------------------------------------------ write scenarios
\* A client holds rows to write to the tab "Principal", which holds a grid of
\* filled cells within the bounds (content the write has to remove); it
\* overwrites the tab and, when that succeeded, reads the tab back without
\* headers.
CelulasEscrita == {EmptyStr, Ca}

InitEscrita ==
    /\ creds = "valid"
    /\ api_key = TRUE
    /\ services = init_drive_client(creds)
    /\ \E g \in Cheias(MaxRows, MaxCols),
          d \in Grades(CelulasEscrita, MaxDados, MaxCols) :
            /\ store = UmaAba(g)
            /\ inp = [dados |-> d, antes |-> g]
    /\ last = [op |-> "none"]

escrita_sobrescrever ==
    /\ last.op = "none"
    /\ \E flt \in Faults(3) :
        \E o \in {sobrescrever_aba(services, store, 1, "Principal", inp.dados, flt)} :
            Serve("sobrescrever_aba",
                  [planilha_id |-> 1, nome_aba |-> "Principal", dados |-> inp.dados],
                  flt, o)

escrita_ler ==
    /\ last.op = "sobrescrever_aba"
    /\ last.kind = "return"
    /\ Get(last.val, "sucesso", FALSE) = TRUE
    /\ \E o \in {ler_dados(services, store, 1, "Principal", EmptyStr, FALSE, NoFault)} :
            Serve("ler_dados",
                  [planilha_id |-> 1, nome_aba |-> "Principal",
                   intervalo |-> EmptyStr, incluir_cabecalhos |-> FALSE], NoFault, o)

NextEscrita ==
    \/ escrita_sobrescrever
    \/ escrita_ler

SpecEscrita == InitEscrita /\ [][NextEscrita]_vars

\* --------------------------------------------------- creation scenarios
\* The account already holds spreadsheets, shared or not; clients create
\* more, with any title (titles need not be unique) and any share address.
PlanilhaExistente(com) ==
    [title |-> "P",
     sheets |-> <<[title |-> "Principal", sheetId |-> 0, values |-> <<>>]>>,
     permissions |-> com]

Existentes(n) ==
    UNION {[1..k -> {PlanilhaExistente({}), PlanilhaExistente({DefaultEmail})}] : k \in 0..n}

EmailsCriacao == {"", DefaultEmail, "ana@example.com"}

InitCriacao ==
    /\ creds \in {"valid", "missing"}
    /\ api_key = TRUE
    /\ services = init_drive_client(creds)
    /\ store \in Existentes(MaxPlanilhas - 1)
    /\ last = [op |-> "none"]
    /\ inp = <<>>

criacao_criar_planilha ==
    /\ Len(store) < MaxPlanilhas
    /\ \E nome \in {"Q1", "P"}, email \in EmailsCriacao, flt \in Faults(2) :
        \E o \in {criar_planilha(services, store, nome, email, flt)} :
           Serve("criar_planilha",
                 [nome_planilha |-> nome, email_compartilhamento |-> email], flt, o)

NextCriacao == criacao_criar_planilha

SpecCriacao == InitCriacao /\ [][NextCriacao]_vars

\* ----------------------------------------------------- append scenarios
\* The tab "Principal" holds any grid of "a" and blanks of at most MaxDados
\* rows; a client appends rows of "b" (at most MaxDados of them), or rows of
\* "b" and blanks (at most MaxLinhas of them).
Cb == <<"b">>

NovasLinhas ==
    Grades({Cb}, MaxDados, MaxCols) \cup Grades({EmptyStr, Cb}, MaxLinhas, MaxCols)

InitAdicao ==
    /\ creds = "valid"
    /\ api_key = TRUE
    /\ services = init_drive_client(creds)
    /\ \E g \in {TrimGrid(x) : x \in Grades(CelulasEscrita, MaxDados, MaxCols)},
          d \in NovasLinhas :
            /\ store = UmaAba(g)
            /\ inp = [dados |-> d, antes |-> g]
    /\ last = [op |-> "none"]

adicao_adicionar ==
    /\ last.op = "none"
    /\ \E flt \in Faults(2) :
        \E o \in {adicionar_celulas(services, store, 1, "Principal", inp.dados, flt)} :
            Serve("adicionar_celulas",
                  [planilha_id |-> 1, nome_aba |-> "Principal", dados |-> inp.dados],
                  flt, o)

NextAdicao == adicao_adicionar

SpecAdicao == InitAdicao /\ [][NextAdicao]_vars

\* ================================================================ claims
OpNames == {"criar_planilha", "listar_planilhas", "listar_abas", "ler_dados",
            "ler_celula", "buscar_dados", "criar_nova_aba", "sobrescrever_aba",
            "adicionar_celulas"}

\* the request served last is one of the nine operations
ServiuOp == last.op \in OpNames

\* a remote call of the request served last failed: in transit, or because
\* the request names a spreadsheet that does not exist
FalhaRemota ==
    \/ last.flt.at \in 1..Len(last.calls)
    \/ /\ "planilha_id" \in DOMAIN last.args
       /\ last.args.planilha_id = 0
       /\ last.calls # <<>>

\* the record is {sucesso: False, erro: <text>}
RegistroDeFalha(r) ==
    /\ "sucesso" \in DOMAIN r
    /\ r.sucesso = FALSE
    /\ "erro" \in DOMAIN r
    /\ r.erro # <<>>

\* C1: whichever remote call of an operation fails, at whichever step of its
\* call sequence, the operation returns a record with sucesso = False and an
\* error text, and no exception leaves it.
C1_FalhaRemotaViraRegistro ==
    (ServiuOp /\ FalhaRemota) =>
        (last.kind = "return" /\ RegistroDeFalha(last.val))

\* the update of sobrescrever_aba failed after the lookup and the clear
C1_Witness ==
    /\ last.op = "sobrescrever_aba"
    /\ last.flt.at = 3
    /\ last.calls = <<"spreadsheets.get", "values.clear", "values.update">>
    /\ last.kind = "return"
    /\ RegistroDeFalha(last.val)

\* C2: when the credential blob is missing, is not JSON or is rejected, the
\* client pair is None, and then every operation returns a payload carrying
\* an error text, without a remote call and without raising.
C2_InicializacaoFalha ==
    /\ creds # "valid" => services = None
    /\ (services = None /\ ServiuOp) =>
          /\ last.kind = "return"
          /\ "erro" \in DOMAIN last.val
          /\ Get(last.val, "sucesso", FALSE) # TRUE
          /\ last.calls = <<>>
          /\ store = <<>>

\* a search was answered with the payload while the credentials were not JSON
C2_Witness ==
    /\ creds = "not_json"
    /\ services = None
    /\ last.op = "buscar_dados"
    /\ last.kind = "return"
    /\ "erro" \in DOMAIN last.val

\* C3 (as claimed): an operation name outside the dispatch chain ends the
\* request of the natural-language endpoint with status 400, and no
\* operation is executed.
C3_TipoDesconhecido400 ==
    (last.op = "perguntar" /\ last.tipo # NoTipo /\ last.tipo \notin TiposConsulta) =>
        (last.http.status = 400 /\ ~last.executou /\ last.calls = <<>>)

\* ---- read scenarios: the grid of the tab and what the store returns
GradeDaAba == store[1].sheets[1].values

\* the values the store returns for the range of the read served last
ValoresLidos ==
    IF last.op = "ler_dados"
    THEN RangeValues(GradeDaAba,
                     IF last.args.intervalo # EmptyStr
                     THEN <<last.args.nome_aba, last.args.intervalo>>
                     ELSE <<last.args.nome_aba>>)
    ELSE IF last.op = "ler_celula"
    THEN RangeValues(GradeDaAba, <<last.args.nome_aba, CellRange(last.args.celula)>>)
    ELSE RangeValues(GradeDaAba, <<last.args.nome_aba>>)

\* C4 (as claimed): with incluir_cabecalhos, every data row is mapped to
\* exactly as many fields as the header row has columns, the field of column
\* c holding the cell of column c, or "" where the row is shorter.
C4_CamposPorCabecalho ==
    (last.op = "ler_dados" /\ last.args.incluir_cabecalhos
        /\ "cabecalhos" \in DOMAIN last.val) =>
        LET cab == last.val.cabecalhos
            dados == last.val.dados
        IN \A i \in 1..Len(dados) :
              /\ Cardinality(DOMAIN dados[i]) = Len(cab)
              /\ \A c \in 1..Len(cab) :
                    dados[i][cab[c]] = CellAt(ValoresLidos, i + 1, c)

\* C5: sobrescrever_aba and adicionar_celulas, on a spreadsheet that exists
\* and has no tab of the given name, return sucesso = False with the
\* tab-not-found text after the lookup alone, and the store is unchanged.
C5_AbaNaoEncontrada ==
    [][ (/\ last'.op \in {"sobrescrever_aba", "adicionar_celulas"}
         /\ services # None
         /\ Exists(store, last'.args.planilha_id)
         /\ TabIndex(store[last'.args.planilha_id].sheets, last'.args.nome_aba) = 0
         /\ last'.flt.at # 1)
        => (/\ last'.kind = "return"
            /\ RegistroDeFalha(last'.val)
            /\ last'.val.erro = <<"Aba nao encontrada na planilha", last'.args.nome_aba>>
            /\ last'.calls = <<"spreadsheets.get">>
            /\ store' = store) ]_vars

\* an append to the missing tab "Vendas" was refused
C5_Witness ==
    /\ last.op = "adicionar_celulas"
    /\ last.args.planilha_id = 1
    /\ last.args.dados # <<>>
    /\ last.kind = "return"
    /\ RegistroDeFalha(last.val)
    /\ last.val.erro = <<"Aba nao encontrada na planilha", "Vendas">>
    /\ TabIndex(store[1].sheets, "Vendas") = 0

\* criar_nova_aba succeeded for the request served last
CriouAba ==
    /\ last.op = "criar_nova_aba"
    /\ last.kind = "return"
    /\ Get(last.val, "sucesso", FALSE) = TRUE

\* C6: a successful criar_nova_aba returns the id of the tab it added; the
\* same request served again returns sucesso = False with the already-exists
\* text, no exception, and leaves the tabs as the first call left them.
C6_AbaDuplicada ==
    [][ /\ CriouAba' =>
            LET id == last'.args.planilha_id
                i == TabIndex(store'[id].sheets, last'.args.nome_aba)
            IN /\ i = Len(store'[id].sheets)
               /\ Len(store'[id].sheets) = Len(store[id].sheets) + 1
               /\ last'.val.aba_id = store'[id].sheets[i].sheetId
        /\ (/\ CriouAba
            /\ last'.op = "criar_nova_aba"
            /\ last'.args = last.args
            /\ last'.flt = NoFault)
           => (/\ last'.kind = "return"
               /\ RegistroDeFalha(last'.val)
               /\ last'.val.erro = <<"Ja existe uma aba com o nome", last'.args.nome_aba>>
               /\ store' = store) ]_vars

\* the second creation of "Vendas" was refused
C6_Witness ==
    /\ last.op = "criar_nova_aba"
    /\ last.flt = NoFault
    /\ last.kind = "return"
    /\ RegistroDeFalha(last.val)
    /\ last.val.erro = <<"Ja existe uma aba com o nome", "Vendas">>
    /\ TabIndex(store[1].sheets, "Vendas") = 2

\* C7 (as claimed): after a successful sobrescrever_aba, ler_dados of the
\* whole tab without headers returns the rows written, cell for cell.
C7_IdaEVolta ==
    last.op = "ler_dados" =>
        (/\ last.kind = "return"
         /\ Get(last.val, "sucesso", FALSE) = TRUE
         /\ last.val.dados = inp.dados)

\* C7 (amended): the same, for rows none of which ends in an empty cell and
\* the last of which is not empty.
C7_IdaEVoltaSemVaziosFinais ==
    (last.op = "ler_dados" /\ TrimGrid(inp.dados) = inp.dados) =>
        (/\ last.kind = "return"
         /\ Get(last.val, "sucesso", FALSE) = TRUE
         /\ last.val.dados = inp.dados
         /\ GradeDaAba = inp.dados)

\* rows were read back from a tab that held more rows before the write
C7_Witness ==
    /\ last.op = "ler_dados"
    /\ inp.dados # <<>>
    /\ TrimGrid(inp.dados) = inp.dados
    /\ Len(inp.antes) > Len(inp.dados)
    /\ last.val.dados = inp.dados

\* C8: a read whose range holds no values succeeds with nothing: ler_dados
\* with total_linhas = 0 and no data, buscar_dados with no result,
\* ler_celula with the value "".
C8_LeituraVazia ==
    (last.op \in {"ler_dados", "ler_celula", "buscar_dados"} /\ ValoresLidos = <<>>) =>
        /\ last.kind = "return"
        /\ Get(last.val, "sucesso", FALSE) = TRUE
        /\ last.op = "ler_dados" => (last.val.total_linhas = 0 /\ last.val.dados = <<>>)
        /\ last.op = "buscar_dados" =>
              (last.val.total_resultados = 0 /\ last.val.resultados = <<>>)
        /\ last.op = "ler_celula" => last.val.valor = EmptyStr

\* an empty range of a tab that holds data was read
C8_Witness ==
    /\ last.op = "ler_dados"
    /\ GradeDaAba # <<>>
    /\ last.args.intervalo # EmptyStr
    /\ ValoresLidos = <<>>
    /\ last.val.total_linhas = 0

\* C9: every match of buscar_dados carries the row number index + 2, index
\* being the 0-based place of its row in the data ler_dados returns, which is
\* the row of the sheet the data come from; the row numbers increase.
C9_NumeroDaLinha ==
    (last.op = "buscar_dados" /\ last.kind = "return"
        /\ Get(last.val, "sucesso", FALSE) = TRUE) =>
        LET res == last.val.resultados
            lido == ler_dados(services, store, last.args.planilha_id,
                              last.args.nome_aba, EmptyStr, TRUE, NoFault).val.dados
        IN /\ \A k \in 1..Len(res) :
                LET index == res[k].linha - 2
                IN /\ index \in 0..(Len(lido) - 1)
                   /\ res[k].dados = lido[index + 1]
                   /\ res[k].dados = linha_dict(GradeDaAba[res[k].linha], GradeDaAba[1])
           /\ \A k \in 1..(Len(res) - 1) : res[k].linha < res[k + 1].linha

\* the only match is the second data row, sheet row 3
C9_Witness ==
    /\ last.op = "buscar_dados"
    /\ last.kind = "return"
    /\ Get(last.val, "sucesso", FALSE) = TRUE
    /\ Len(last.val.resultados) = 1
    /\ last.val.resultados[1].linha = 3

\* C10 (as claimed): every record an operation returns carries a boolean
\* sucesso and a mensagem text.
C10_SucessoEMensagem ==
    ServiuOp =>
        (/\ last.kind = "return"
         /\ "sucesso" \in DOMAIN last.val
         /\ last.val.sucesso \in BOOLEAN
         /\ "mensagem" \in DOMAIN last.val)

\* a text: what str(e) or an f-string gives, never None
EhTexto(t) == t # None /\ t \in Seq(STRING)

\* sucesso = False in r implies erro in r, holding a text
FalhaTemErro(r) ==
    ("sucesso" \in DOMAIN r /\ r.sucesso = FALSE) =>
        ("erro" \in DOMAIN r /\ EhTexto(r.erro))

\* C11: every record one of the nine operations returns, to a REST handler
\* or to the natural-language endpoint, that has sucesso = False also has the
\* field erro, holding a text.
C11_FalhaTemErro ==
    /\ (ServiuOp /\ last.kind = "return") => FalhaTemErro(last.val)
    /\ (last.op = "perguntar" /\ last.kind = "return") =>
          FalhaTemErro(last.val.resultado_bruto)

\* ler_dados named a tab the spreadsheet does not have: the HttpError branch
C11_Witness ==
    /\ last.op = "ler_dados"
    /\ last.flt.at = 0
    /\ last.args.planilha_id = 1
    /\ last.kind = "return"
    /\ Get(last.val, "sucesso", TRUE) = FALSE
    /\ "erro" \in DOMAIN last.val

\* C12: with the API key absent, a request to the natural-language endpoint
\* ends with an error response (status 500 and a detail), no model call was
\* made and no operation was entered; the REST handlers answer with the
\* record of their operation as they do with the key present.
C12_SemChave ==
    /\ (~api_key /\ last.op = "perguntar") =>
          /\ last.kind = "raise"
          /\ last.http.status = 500
          /\ "detail" \in DOMAIN last.http
          /\ last.llm = <<>>
          /\ ~last.executou
          /\ last.calls = <<>>
    /\ (~api_key /\ ServiuOp) =>
          /\ last.kind = "return"
          /\ last.http = [status |-> 200, body |-> [result |-> last.val]]

\* a question was refused while the clients of the store were initialised
C12_Witness ==
    /\ ~api_key
    /\ services # None
    /\ store # <<>>
    /\ last.op = "perguntar"
    /\ last.http.status = 500
    /\ last.llm = <<>>

\* ---- creation scenarios: the step that served criar_planilha
\* the creation call of the step answered: the store holds one more spreadsheet
CriouPlanilha == Len(store') = Len(store) + 1

\* C13: in criar_planilha the grant is the call after a creation call that
\* returned an id, issued if and only if the share address is non-empty
\* (never when the creation call failed or was not made), and it adds the
\* address to the spreadsheet of the id creation returned and to no other;
\* on success the URL contains that id and compartilhada_com is the address
\* passed.
C13_CompartilhaSeEmail ==
    [][ last'.op = "criar_planilha" =>
          LET email == last'.args.email_compartilhamento
              id == Len(store) + 1
              concedeu == \E k \in 1..Len(last'.calls) : last'.calls[k] = "permissions.create"
          IN /\ concedeu <=> (CriouPlanilha /\ email # "")
             /\ concedeu => last'.calls = <<"spreadsheets.create", "permissions.create">>
             /\ \A i \in 1..Len(store) : store'[i] = store[i]
             /\ CriouPlanilha =>
                   store'[id].permissions \in {{}, {email}} \ {{""}}
             /\ (CriouPlanilha /\ email # "" /\ last'.flt.at # 2) =>
                   store'[id].permissions = {email}
             /\ Get(last'.val, "sucesso", FALSE) = TRUE =>
                   /\ CriouPlanilha
                   /\ last'.val.planilha_id = id
                   /\ last'.val.url = Url(id)
                   /\ last'.val.compartilhada_com = email
                   /\ store'[id].permissions = IF email = "" THEN {} ELSE {email}
    ]_vars

\* a second spreadsheet was created and shared, the first one being shared
\* with another address
C13_Witness ==
    /\ last.op = "criar_planilha"
    /\ Get(last.val, "sucesso", FALSE) = TRUE
    /\ last.val.planilha_id = 2
    /\ last.calls = <<"spreadsheets.create", "permissions.create">>
    /\ store[1].permissions = {DefaultEmail}
    /\ store[2].permissions = {"ana@example.com"}

\* C14: after adicionar_celulas returned success, every cell of the rows the
\* tab held before holds what it held, and the rows below them are the new
\* rows, cell for cell: row k of the request is row (last populated row + k)
\* of the tab.
C14_AdicionaNoFim ==
    (last.op = "adicionar_celulas" /\ Get(last.val, "sucesso", FALSE) = TRUE) =>
        LET n == Len(inp.antes)
        IN /\ \A r \in 1..n, c \in 1..(MaxCols + 1) :
                 CellAt(GradeDaAba, r, c) = CellAt(inp.antes, r, c)
           /\ \A k \in 1..(MaxDados + 1), c \in 1..(MaxCols + 1) :
                 CellAt(GradeDaAba, n + k, c) = CellAt(inp.dados, k, c)

\* two rows were appended below a tab whose first row is blank
C14_Witness ==
    /\ last.op = "adicionar_celulas"
    /\ Get(last.val, "sucesso", FALSE) = TRUE
    /\ Len(inp.antes) = 2
    /\ inp.antes[1] = <<>>
    /\ Len(inp.dados) = 2
    /\ Len(GradeDaAba) = 4

\* ---- the natural-language endpoint: the request served last
\* the reply of the translation call parsed as JSON
LeuJson == json_loads(conteudo(last.args.resposta)).ok

\* the remote calls of each operation of the dispatch chain, in order
ChamadasDe(tipo) ==
    IF tipo = "criar_planilha" THEN <<"spreadsheets.create", "permissions.create">>
    ELSE IF tipo = "listar_planilhas" THEN <<"files.list">>
    ELSE IF tipo = "listar_abas" THEN <<"spreadsheets.get">>
    ELSE IF tipo \in {"ler_dados", "ler_celula", "buscar_dados"} THEN <<"values.get">>
    ELSE IF tipo = "criar_aba" THEN <<"spreadsheets.get", "spreadsheets.batchUpdate">>
    ELSE IF tipo = "sobrescrever_aba"
    THEN <<"spreadsheets.get", "values.clear", "values.update">>
    ELSE IF tipo = "adicionar_celulas" THEN <<"spreadsheets.get", "values.append">>
    ELSE <<>>

IsPrefix(s, t) == Len(s) <= Len(t) /\ SubSeq(t, 1, Len(s)) = s

\* C15: a request to the natural-language endpoint makes at most one
\* translation call, then enters at most one operation, then makes at most
\* one narration call, none of them twice; an operation is entered only
\* after the reply parsed as JSON and named an operation of the dispatch
\* chain, and the narration call is made only after an operation was
\* entered; when the reply does not parse the request fails with no
\* operation entered and no narration call.
C15_PassagemUnica ==
    last.op = "perguntar" =>
        /\ last.llm \in {<<>>, <<"traducao">>, <<"traducao", "interpretacao">>}
        /\ last.executou =>
              /\ last.llm # <<>>
              /\ LeuJson
              /\ last.tipo \in TiposConsulta
              /\ IsPrefix(last.calls, ChamadasDe(last.tipo))
        /\ ~last.executou =>
              /\ last.calls = <<>>
              /\ last.llm # <<"traducao", "interpretacao">>
        /\ last.kind = "return" =>
              /\ last.executou
              /\ last.llm = <<"traducao", "interpretacao">>
        /\ (api_key /\ last.args.falha # 1 /\ ~LeuJson) =>
              /\ last.kind = "raise"
              /\ last.http.status = 500
              /\ ~last.executou
              /\ last.calls = <<>>
              /\ last.llm = <<"traducao">>

\* the model put a word before the object: the reply did not parse
C15_Witness ==
    /\ last.op = "perguntar"
    /\ api_key
    /\ services # None
    /\ last.args.resposta[1] = Word("Claro")
    /\ ~LeuJson
    /\ last.http.status = 500
    /\ last.llm = <<"traducao">>

\* the reply is one JSON object inside a pair of code fences, with or
\* without a language tag after the opening fence
Cercada(text) ==
    \E j \in Objetos :
        text \in {<<Fence, Ws, j, Ws, Fence>>, <<Fence, Word("json"), Ws, j, Ws, Fence>>}

ObjetoCercado(text) == (CHOOSE k \in 1..Len(text) : text[k].t = "json")

\* C16 (as claimed): a reply that is the JSON object inside code fences, with
\* or without a language tag, is parsed to the operation and the parameters
\* of the object, as the reply without the fences is.
C16_CercaRemovida ==
    (last.op = "perguntar" /\ api_key /\ last.args.falha = 0
        /\ Cercada(last.args.resposta)) =>
        LET j == last.args.resposta[ObjetoCercado(last.args.resposta)]
        IN /\ LeuJson
           /\ json_loads(conteudo(last.args.resposta)) = json_loads(<<j>>)
           /\ last.tipo = j.v.tipo_consulta

\* the parameters without default of each function of the dispatch chain
Obrigatorios(tipo) ==
    IF tipo = "criar_planilha" THEN {"nome_planilha"}
    ELSE IF tipo = "listar_planilhas" THEN {}
    ELSE IF tipo \in {"listar_abas", "ler_dados"} THEN {"planilha_id"}
    ELSE IF tipo = "ler_celula" THEN {"planilha_id", "nome_aba", "celula"}
    ELSE IF tipo = "buscar_dados" THEN {"planilha_id", "nome_aba", "termo_busca"}
    ELSE IF tipo = "criar_aba" THEN {"planilha_id", "nome_aba"}
    ELSE {"planilha_id", "nome_aba", "dados"}

\* the request served last reached the dispatch with a known operation and
\* parameters that lack one the function requires
FaltaParametro ==
    /\ last.op = "perguntar"
    /\ api_key
    /\ last.args.falha # 1
    /\ LeuJson
    /\ LET v == json_loads(conteudo(last.args.resposta)).val
       IN /\ Get(v, "tipo_consulta", NoTipo) \in TiposConsulta
          /\ ~(Obrigatorios(v.tipo_consulta) \subseteq DOMAIN Get(v, "parametros", <<>>))

\* C17 (as claimed): parameters lacking a required field give a failure
\* record returned by the operation, which the endpoint returns as
\* resultado_bruto.
C17_ParametroAusenteViraRegistro ==
    FaltaParametro =>
        /\ last.kind = "return"
        /\ RegistroDeFalha(last.val.resultado_bruto)

\* C17 (amended): parameters lacking a required field make the call of the
\* operation raise before its body runs; the request ends with status 500,
\* with no raw result, no remote call and no narration call.
C17_ParametroAusenteVira500 ==
    FaltaParametro =>
        /\ last.kind = "raise"
        /\ last.http.status = 500
        /\ ~last.executou
        /\ last.calls = <<>>
        /\ last.llm = <<"traducao">>

\* ler_celula was asked for without celula, of a spreadsheet that exists
C17_Witness ==
    /\ FaltaParametro
    /\ last.tipo = "ler_celula"
    /\ store # <<>>
    /\ last.http.status = 500

\* the grant of the step was issued, after the creation call, and failed
FalhouCompartilhamento ==
    /\ last'.calls = <<"spreadsheets.create", "permissions.create">>
    /\ last'.flt.at = 2

\* C18: when the creation call succeeded and the grant failed, criar_planilha
\* returns the record {sucesso: False, erro} and nothing else (no
\* planilha_id), the fields it returns when the creation call failed, and the
\* spreadsheet it created stays in the store, shared with nobody.
C18_FalhaAoCompartilhar ==
    [][ last'.op = "criar_planilha" =>
          /\ FalhouCompartilhamento =>
                /\ last'.kind = "return"
                /\ RegistroDeFalha(last'.val)
                /\ DOMAIN last'.val = {"sucesso", "erro"}
                /\ store' = Append(store,
                      [title |-> last'.args.nome_planilha,
                       sheets |-> <<[title |-> "Principal", sheetId |-> 0, values |-> <<>>]>>,
                       permissions |-> {}])
          /\ (last'.calls = <<"spreadsheets.create">> /\ last'.flt.at = 1) =>
                /\ last'.kind = "return"
                /\ RegistroDeFalha(last'.val)
                /\ DOMAIN last'.val = {"sucesso", "erro"}
                /\ store' = store
    ]_vars

\* the grant failed on an empty store: the store holds the new spreadsheet
C18_Witness ==
    /\ last.op = "criar_planilha"
    /\ last.flt = [at |-> 2, type |-> "Exception"]
    /\ last.calls = <<"spreadsheets.create", "permissions.create">>
    /\ Get(last.val, "sucesso", TRUE) = FALSE
    /\ Len(store) = 1
    /\ store[1].title = "Q1"
    /\ store[1].permissions = {}

\* C19 (as claimed): whenever the creation call succeeded criar_planilha
\* declares success, whatever became of the grant.
C19_SucessoSemConfirmar ==
    [][ (last'.op = "criar_planilha" /\ CriouPlanilha) =>
          Get(last'.val, "sucesso", FALSE) = TRUE ]_vars

\* C19 (amended): after a creation call that succeeded, criar_planilha
\* declares success exactly when no grant was due or the grant returned; a
\* grant that raises gives sucesso = False.  On success with an address the
\* spreadsheet is shared with it.
C19_SucessoSeCompartilhou ==
    [][ (last'.op = "criar_planilha" /\ CriouPlanilha) =>
          LET email == last'.args.email_compartilhamento
              sucesso == Get(last'.val, "sucesso", FALSE) = TRUE
          IN /\ sucesso <=> (email = "" \/ last'.flt.at # 2)
             /\ FalhouCompartilhamento => Get(last'.val, "sucesso", TRUE) = FALSE
             /\ (sucesso /\ email # "") => email \in store'[Len(store')].permissions
    ]_vars

\* the grant of a second spreadsheet was refused by the service
C19_Witness ==
    /\ last.op = "criar_planilha"
    /\ last.flt = [at |-> 2, type |-> "HttpError"]
    /\ last.calls = <<"spreadsheets.create", "permissions.create">>
    /\ Get(last.val, "sucesso", TRUE) = FALSE
    /\ Len(store) = 2
    /\ store[2].permissions = {}

\* C20: the client pair is what init_drive_client made of the credentials
\* when the process started, and no request, of any handler in any order,
\* changes it: an initialised pair stays that pair and None stays None.
C20_ServicesImutavel ==
    [][ /\ services' = services
        /\ services = init_drive_client(creds)
        /\ services' = init_drive_client(creds') ]_vars

\* a request was answered with the not-initialised payload, the pair being
\* None since the credentials were rejected at the start
C20_Witness ==
    /\ creds = "rejected"
    /\ services = None
    /\ last.op = "listar_abas"
    /\ last.val = NaoInicializadoSheets

\* ---- the remote calls of one invocation
\* the name of the dispatch chain for the operation served last
TipoDe(op) == IF op = "criar_nova_aba" THEN "criar_aba" ELSE op

UmaChamada == {"listar_planilhas", "listar_abas", "ler_dados", "ler_celula", "buscar_dados"}

\* C21 (as claimed): with the clients initialised, every operation other
\* than criar_planilha issues exactly one remote call and criar_planilha at
\* most two.
C21_UmaChamadaPorOperacao ==
    (ServiuOp /\ services # None) =>
        /\ last.op # "criar_planilha" => Len(last.calls) = 1
        /\ last.op = "criar_planilha" => Len(last.calls) \in 1..2

\* C21 (amended): with the clients initialised an invocation issues, in
\* order, a non-empty prefix of the calls of its operation: one call for the
\* five readers and listers, up to two for criar_planilha (create, grant),
\* criar_nova_aba (lookup, addSheet) and adicionar_celulas (lookup, append),
\* up to three for sobrescrever_aba (lookup, clear, update).  An invocation
\* that returns failure has left the store changed only in criar_planilha
\* (grant failed after the creation) and in sobrescrever_aba (update failed
\* after the clear); the other operations fail with the store unchanged.
C21_ChamadasPorOperacao ==
    [][ last'.op \in OpNames =>
          /\ IsPrefix(last'.calls, ChamadasDe(TipoDe(last'.op)))
          /\ (services = None) <=> (last'.calls = <<>>)
          /\ last'.op \in UmaChamada => Len(last'.calls) <= 1
          /\ (Get(last'.val, "sucesso", TRUE) = FALSE /\ store' # store) =>
                \/ last'.op = "criar_planilha" /\ Len(last'.calls) = 2
                \/ last'.op = "sobrescrever_aba" /\ Len(last'.calls) = 3
    ]_vars

\* criar_nova_aba failed at its second call, after the lookup had answered
C21_Witness ==
    /\ last.op = "criar_nova_aba"
    /\ last.flt.at = 2
    /\ last.calls = <<"spreadsheets.get", "spreadsheets.batchUpdate">>
    /\ Get(last.val, "sucesso", TRUE) = FALSE

\* ---- search: the rows of the sheet that match the request served last
\* data row r of the tab (sheet row r, r >= 2) holds the term in the column
\* named by the request, or in one of its columns when no column is named
LinhaCasaNaAba(r) ==
    LET cab == GradeDaAba[1]
        termo == Lower(last.args.termo_busca)
    IN IF Truthy(last.args.coluna_busca)
       THEN \E c \in 1..Len(cab) :
               /\ cab[c] = last.args.coluna_busca
               /\ StrIn(termo, Lower(CellAt(GradeDaAba, r, c)))
       ELSE \E c \in 1..Len(cab) : StrIn(termo, Lower(CellAt(GradeDaAba, r, c)))

\* C22 (as claimed): buscar_dados returns exactly the data rows of the tab
\* that match, each once and in sheet order, and total_resultados counts
\* them.
C22_BuscaExata ==
    (last.op = "buscar_dados" /\ last.kind = "return"
        /\ Get(last.val, "sucesso", FALSE) = TRUE) =>
        LET res == last.val.resultados
            esperadas == {r \in 2..Len(GradeDaAba) : LinhaCasaNaAba(r)}
        IN /\ {res[k].linha : k \in 1..Len(res)} = esperadas
           /\ \A k \in 1..(Len(res) - 1) : res[k].linha < res[k + 1].linha
           /\ last.val.total_resultados = Len(res)

\* C23: a REST handler answers every request with status 200 and the body
\* {result: record}, the record being what the operation returned: a success
\* record, a failure record or the clients-not-initialised payload; no
\* remote failure takes a handler to its status 500 branch.
C23_RestSempre200 ==
    ServiuOp =>
        /\ last.kind = "return"
        /\ last.http.status = 200
        /\ DOMAIN last.http = {"status", "body"}
        /\ last.http.body = [result |-> last.val]
        /\ \/ Get(last.val, "sucesso", FALSE) = TRUE
           \/ RegistroDeFalha(last.val)
           \/ last.val \in {NaoInicializadoDrive, NaoInicializadoSheets}

\* a read whose remote call failed in transit was answered with status 200
C23_Witness ==
    /\ last.op = "ler_celula"
    /\ last.flt = [at |-> 1, type |-> "Exception"]
    /\ last.calls = <<"values.get">>
    /\ RegistroDeFalha(last.val)
    /\ last.http.status = 200

\* ---- the natural-language endpoint: a mutation and a failed narration
Mutadoras == {"criar_planilha", "criar_aba", "sobrescrever_aba", "adicionar_celulas"}

\* C24: when the operation the endpoint dispatched is a mutating one that
\* returned success and the narration call then fails, the request ends
\* with status 500 and a detail that holds neither the operation nor its
\* result, and the store is what the operation left: the sheet or tab it
\* created, the rows it wrote.
C24_NarracaoFalhaAposMutacao ==
    [][ (last'.op = "perguntar" /\ last'.args.falha = 2 /\ last'.tipo \in Mutadoras
            /\ last'.executou) =>
          LET v == json_loads(conteudo(last'.args.resposta)).val
              d == dispatch(services, store, v.tipo_consulta, v.parametros)
          IN (d.kind = "return" /\ Get(d.val, "sucesso", FALSE) = TRUE) =>
                /\ last'.kind = "raise"
                /\ last'.http = [status |-> 500, detail |-> "Erro ao processar pergunta"]
                /\ last'.llm = <<"traducao", "interpretacao">>
                /\ last'.calls = d.calls
                /\ store' = d.st
                /\ last'.tipo \in {"criar_planilha", "criar_aba", "adicionar_celulas"} =>
                      store' # store
    ]_vars

\* the spreadsheet was created and shared by the request whose narration
\* call failed
C24_Witness ==
    /\ last.op = "perguntar"
    /\ last.args.falha = 2
    /\ last.tipo = "criar_planilha"
    /\ last.calls = <<"spreadsheets.create", "permissions.create">>
    /\ last.http.status = 500
    /\ Len(store) = 1
    /\ store[1].permissions = {DefaultEmail}

\* C25: when the clear call of sobrescrever_aba succeeded and its update
\* call fails, the operation returns sucesso = False and the tab is empty:
\* the earlier content is erased and no new row is written; when the lookup
\* or the clear call fails, it returns sucesso = False and the store is as
\* it was.
C25_SobrescreverNaoAtomico ==
    [][ last'.op = "sobrescrever_aba" =>
          /\ last'.flt.at = 3 =>
                /\ last'.calls = <<"spreadsheets.get", "values.clear", "values.update">>
                /\ last'.kind = "return"
                /\ RegistroDeFalha(last'.val)
                /\ store'[1].sheets[1].values = <<>>
          /\ last'.flt.at \in {1, 2} =>
                /\ Len(last'.calls) = last'.flt.at
                /\ last'.kind = "return"
                /\ RegistroDeFalha(last'.val)
                /\ store' = store
    ]_vars

\* the update failed: the tab, which held rows, is empty and the rows of the
\* request are not in it
C25_Witness ==
    /\ last.op = "sobrescrever_aba"
    /\ last.flt.at = 3
    /\ Get(last.val, "sucesso", TRUE) = FALSE
    /\ inp.antes # <<>>
    /\ inp.dados # <<>>
    /\ TrimGrid(inp.dados) # <<>>
    /\ GradeDaAba = <<>>

\* ------------------------------------------- two overwrites of the same tab
\* Two requests of sobrescrever_aba for the tab "Principal" of spreadsheet 1,
\* each between two of its remote calls; the remote store serves one call
\* at a time.  last.req[i] holds where request i stands (pc), the calls it
\* has made and, once it returned, what it returned; last.ultimo is the
\* request whose update was applied last.

\* the grids of k rows of j cells c, 1 <= k <= m and 1 <= j <= n
CheiasDe(c, m, n) == {[i \in 1..k |-> [j \in 1..l |-> c]] : k \in 1..m, l \in 1..n}

Pedido(pc, val, calls) == [pc |-> pc, val |-> val, calls |-> calls]

\* the k-th remote call of a request answers or fails in transit
FaltasDoPasso(k) == {NoFault} \cup {[at |-> k, type |-> t] : t \in {"HttpError", "Exception"}}

\* what the request returned, when the step ended it
Encerrado(o) == [req |-> Pedido("done", CatchAll(o).val, o.calls), st |-> o.st]

\* the lookup of the tab
passo_get(st, planilha_id, nome_aba, flt) ==
    IF verifica_aba(st, planilha_id, nome_aba, flt).kind = "continue"
    THEN [req |-> Pedido("clear", None, <<"spreadsheets.get">>), st |-> st]
    ELSE Encerrado(verifica_aba(st, planilha_id, nome_aba, flt))

\* the clear call
passo_clear(st, planilha_id, nome_aba, calls, c2) ==
    IF ~c2.ok
    THEN Encerrado(Raise(c2.exc, c2.st, Append(calls, "values.clear")))
    ELSE [req |-> Pedido("update", None, Append(calls, "values.clear")), st |-> c2.st]

\* the update call and the record returned after it
passo_update(st, planilha_id, nome_aba, calls, c3) ==
    IF ~c3.ok
    THEN Encerrado(Raise(c3.exc, c3.st, Append(calls, "values.update")))
    ELSE Encerrado(Return([sucesso |-> TRUE,
                           mensagem |-> <<"Dados sobrescritos na aba", nome_aba>>,
                           planilha_id |-> planilha_id,
                           aba_nome |-> nome_aba,
                           celulas_atualizadas |-> Get(c3.val, "updatedCells", None),
                           url |-> UrlGid(planilha_id, 0)],
                          c3.st, Append(calls, "values.update")))

InitConcorrente ==
    /\ creds = "valid"
    /\ api_key = TRUE
    /\ services = init_drive_client(creds)
    /\ \E g \in Cheias(MaxRows, MaxCols),
          d1 \in CheiasDe(Cb, MaxDados, MaxCols),
          d2 \in CheiasDe(Cab, MaxDados, MaxCols) :
            /\ store = UmaAba(g)
            /\ inp = [dados |-> <<d1, d2>>, antes |-> g]
    /\ last = [op |-> "concorrente",
               req |-> <<Pedido("get", None, <<>>), Pedido("get", None, <<>>)>>,
               ultimo |-> 0]

Avanca(i, r, ultimo) ==
    /\ store' = r.st
    /\ last' = [last EXCEPT !.req[i] = r.req, !.ultimo = ultimo]
    /\ UNCHANGED <<creds, api_key, services, inp>>

conc_get ==
    \E i \in 1..2 :
        /\ last.req[i].pc = "get"
        /\ \E flt \in FaltasDoPasso(1) :
              Avanca(i, passo_get(store, 1, "Principal", flt), last.ultimo)

conc_clear ==
    \E i \in 1..2 :
        /\ last.req[i].pc = "clear"
        /\ \E flt \in FaltasDoPasso(2) :
              Avanca(i, passo_clear(store, 1, "Principal", last.req[i].calls,
                                    Execute(2, flt, store,
                                            ValuesClear(store, 1, "Principal"))),
                     last.ultimo)

conc_update ==
    \E i \in 1..2 :
        /\ last.req[i].pc = "update"
        /\ \E flt \in FaltasDoPasso(3) :
              Avanca(i, passo_update(store, 1, "Principal", last.req[i].calls,
                                     Execute(3, flt, store,
                                             ValuesUpdate(store, 1, "Principal",
                                                          inp.dados[i]))),
                     IF flt.at = 3 THEN last.ultimo ELSE i)

NextConcorrente ==
    \/ conc_get
    \/ conc_clear
    \/ conc_update

SpecConcorrente == InitConcorrente /\ [][NextConcorrente]_vars

\* both requests returned, and both returned sucesso = True
AmbosComSucesso ==
    \A i \in 1..2 :
        /\ last.req[i].pc = "done"
        /\ Get(last.req[i].val, "sucesso", FALSE) = TRUE

\* C26: when two overwrites of the same tab with different rows both
\* returned sucesso = True, the tab holds the rows of the request whose
\* update was applied last and nothing else, in whatever order their
\* lookup, clear and update calls reached the store.
C26_SemMistura ==
    AmbosComSucesso => GradeDaAba = inp.dados[last.ultimo]

====
